---- MODULE Spec2Model ----
(***************************************************************************)
(* deflux: bridge from a deCONZ gateway's sensor events to InfluxDB v2.    *)
(* The model follows src/main.go: configuration search and parsing         *)
(* (loadConfiguration, readConfiguration), default-configuration           *)
(* generation (outputDefaultConfiguration, defaultConfiguration), the      *)
(* event source (sensorEventChan) and the forwarding loop of main.         *)
(*                                                                         *)
(* Go values are represented as follows.  An error is a sequence of        *)
(* message parts, nil being <<>>; fmt.Errorf concatenates parts.  A        *)
(* pointer that may be nil is a sequence of length 0 or 1.  A byte slice   *)
(* holding a file is a sequence of text lines.  Go slice index i is TLA+   *)
(* sequence index i + 1.                                                   *)
(***************************************************************************)
EXTENDS Integers, Sequences, FiniteSets, TLC

VARIABLES
    cwd,            \* result of os.Getwd: <<dir>>, or <<>> when it fails
    fs,             \* the file system: path -> file state
    pc,             \* position of the main goroutine
    fsReads,        \* ioutil.ReadFile calls so far: <<[path, ok]>>
    pwdErr,         \* readConfiguration's pwdErr
    data,           \* bytes returned by readConfiguration
    loadErr,        \* error returned by loadConfiguration
    config,         \* configuration returned by loadConfiguration
    c,              \* configuration under construction in default generation
    discovery,      \* results of deconz.Discover calls: <<[err, found]>>
    pairing,        \* results of deconz.Pair calls: <<[addr, err, apikey]>>
    stdout,         \* lines printed on standard output
    eventReaderCalls, \* number of d.EventReader() calls
    dialCalls,      \* number of reader.Dial() calls
    chanErr,        \* error returned by sensorEventChan
    chanMade,       \* the channel of sensorEventChan exists
    writer,         \* the influxdb2 write API: <<options>>, or <<>>
    prodPc,         \* position of the producer goroutine
    pending,        \* event of the producer's blocked send
    buf,            \* the channel's buffer
    closed,         \* the channel is closed
    sent,           \* events whose send has completed, in order
    offered,        \* number of sends the producer has begun
    sensorEvent,    \* the loop's sensorEvent: <<event>>, or <<>> for nil
    received,       \* events the loop has received, in order
    processed,      \* number of received events the loop is done with
    ts,             \* result of sensorEvent.Timeseries()
    written,        \* points handed to writeAPI.WritePoint, in order
    panicVal        \* value of the panic that ended the process

vars == <<cwd, fs, pc, fsReads, pwdErr, data, loadErr, config, c, discovery,
          pairing, stdout, eventReaderCalls, dialCalls, chanErr, chanMade,
          writer, prodPc, pending, buf, closed, sent, offered, sensorEvent,
          received, processed, ts, written, panicVal>>

loadVars == <<fsReads, pwdErr, data, loadErr, config>>
genVars == <<c, discovery, pairing, stdout>>
connVars == <<eventReaderCalls, dialCalls, chanErr, chanMade, writer>>
chanVars == <<prodPc, pending, buf, closed, sent, offered>>
loopVars == <<sensorEvent, received, processed, ts, written>>
envVars == <<cwd, fs>>

Range(s) == {s[i] : i \in 1..Len(s)}

\* ------------------------------------------------------------------ bounds
\* Number of sends the producer begins in a run.
MaxEvents == 3
\* Largest number of gateways one discovery reports.
MaxCandidates == 2

\* ------------------------------------------------------------ configuration
YmlFileName == "deflux.yml"

\* path.Join of a directory and a file name.
PathJoin(dir, name) == dir \o "/" \o name

WorkDir == "/work"
EtcDir == "/etc"

Configuration(addr, apikey, url, org, token, bucket, batchSize) ==
    [Deconz |-> [Addr |-> addr, APIKey |-> apikey],
     Influxdb2 |-> [URL |-> url, Org |-> org, Token |-> token,
                    Bucket |-> bucket, BatchSize |-> batchSize]]

\* The skeleton built at the start of defaultConfiguration.
Skeleton ==
    Configuration("http://127.0.0.1:8080/", "change me",
                  "http://127.0.0.1:8086/", "change me", "change me",
                  "change me", 20)

\* Two configurations an operator may have saved.
ConfigWork ==
    Configuration("http://192.168.1.5:80/api", "WORKKEY",
                  "http://influx.work:8086/", "home", "worktoken", "sensors", 20)
ConfigEtc ==
    Configuration("http://192.168.1.6:8080/api", "ETCKEY",
                  "http://influx.etc:8086/", "site", "etctoken", "deconz", 50)
KnownConfigs == {Skeleton, ConfigWork, ConfigEtc}

\* yaml.Marshal of the two-section struct: yaml.v2 lower-cases field names.
Marshal(cfg) ==
    << "deconz:",
       "  addr: " \o cfg.Deconz.Addr,
       "  apikey: " \o cfg.Deconz.APIKey,
       "influxdb2:",
       "  url: " \o cfg.Influxdb2.URL,
       "  org: " \o cfg.Influxdb2.Org,
       "  token: " \o cfg.Influxdb2.Token,
       "  bucket: " \o cfg.Influxdb2.Bucket,
       "  batchsize: " \o ToString(cfg.Influxdb2.BatchSize) >>

\* Content that is no YAML document.
Garbage == << "{{{ not yaml" >>

\* The zero Configuration: what an empty document leaves in config.
ZeroConfig == Configuration("", "", "", "", "", "", 0)

\* yaml.Unmarshal into a Configuration: nothing to decode in empty data,
\* else the configuration whose document the data is, or a parse error.
Unmarshal(bytes) ==
    IF bytes = <<>>
    THEN [config |-> <<ZeroConfig>>, err |-> <<>>]
    ELSE IF \E cfg \in KnownConfigs : Marshal(cfg) = bytes
    THEN [config |-> <<CHOOSE cfg \in KnownConfigs : Marshal(cfg) = bytes>>,
          err |-> <<>>]
    ELSE [config |-> <<>>, err |-> <<"yaml: did not find expected node content">>]

\* ------------------------------------------------------------- file system
Absent == [kind |-> "absent", bytes |-> <<>>]
Denied == [kind |-> "denied", bytes |-> <<>>]
File(bytes) == [kind |-> "file", bytes |-> bytes]

WorkPath == PathJoin(WorkDir, YmlFileName)
EtcPath == PathJoin(EtcDir, YmlFileName)

\* ioutil.ReadFile
ReadFile(p) ==
    CASE fs[p].kind = "file" -> [data |-> fs[p].bytes, err |-> <<>>]
      [] fs[p].kind = "absent" ->
            [data |-> <<>>, err |-> <<"open " \o p \o ": no such file or directory">>]
      [] OTHER ->
            [data |-> <<>>, err |-> <<"open " \o p \o ": permission denied">>]

Init ==
    /\ cwd \in {<<WorkDir>>, <<EtcDir>>, <<>>}
    /\ \E w \in {Absent, Denied, File(Marshal(ConfigWork)), File(Garbage), File(<<>>)},
          e \in {Absent, Denied, File(Marshal(ConfigEtc)), File(Garbage), File(<<>>)} :
          fs = (WorkPath :> w) @@ (EtcPath :> e)
    /\ pc = "getwd"
    /\ fsReads = <<>>
    /\ pwdErr = <<>>
    /\ data = <<>>
    /\ loadErr = <<>>
    /\ config = <<>>
    /\ c = <<>>
    /\ discovery = <<>>
    /\ pairing = <<>>
    /\ stdout = <<>>
    /\ eventReaderCalls = 0
    /\ dialCalls = 0
    /\ chanErr = <<>>
    /\ chanMade = FALSE
    /\ writer = <<>>
    /\ prodPc = "none"
    /\ pending = <<>>
    /\ buf = <<>>
    /\ closed = FALSE
    /\ sent = <<>>
    /\ offered = 0
    /\ sensorEvent = <<>>
    /\ received = <<>>
    /\ processed = 0
    /\ ts = <<>>
    /\ written = <<>>
    /\ panicVal = <<>>

\* ------------------------------------------------------ loadConfiguration
\* readConfiguration, os.Getwd: a failure returns without reading any file;
\* loadConfiguration wraps the error.
Getwd ==
    /\ pc = "getwd"
    /\ IF cwd = <<>>
       THEN /\ loadErr' = <<"could not read configuration: ",
                            "unable to get current work directory: ",
                            "getwd: no such file or directory">>
            /\ pc' = "loaded"
       ELSE /\ loadErr' = loadErr
            /\ pc' = "readPwd"
    /\ UNCHANGED <<fsReads, pwdErr, data, config>>
    /\ UNCHANGED <<envVars, genVars, connVars, chanVars, loopVars, panicVal>>

\* Variant: the /etc file is read whatever the first read returned.
AfterReadPwdAlwaysEtc(err) == "readEtc"

\* Variant: a failed first read does not fall through to /etc.
AfterReadPwdNoFallback(err) == "unmarshal"

\* Where readConfiguration goes after reading the working-directory file.
AfterReadPwd(err) == IF err = <<>> THEN "unmarshal" ELSE "readEtc"

\* readConfiguration, ioutil.ReadFile(pwdPath): on success the data is
\* returned at once.
ReadPwd ==
    /\ pc = "readPwd"
    /\ LET pwdPath == PathJoin(cwd[1], YmlFileName)
           r == ReadFile(pwdPath)
       IN /\ fsReads' = Append(fsReads, [path |-> pwdPath, ok |-> r.err = <<>>])
          /\ pwdErr' = r.err
          /\ data' = r.data
          /\ pc' = AfterReadPwd(r.err)
    /\ UNCHANGED <<loadErr, config>>
    /\ UNCHANGED <<envVars, genVars, connVars, chanVars, loopVars, panicVal>>

\* Variant: the error reports the /etc failure alone.
ReadErrorEtcOnly(pErr, eErr) == <<"\n">> \o eErr

\* The error readConfiguration returns when both reads failed.
ReadError(pErr, eErr) == <<"\n">> \o pErr \o <<"\n">> \o eErr

\* readConfiguration, ioutil.ReadFile(etcPath); loadConfiguration wraps the
\* error.
ReadEtc ==
    /\ pc = "readEtc"
    /\ LET etcPath == PathJoin(EtcDir, YmlFileName)
           r == ReadFile(etcPath)
       IN /\ fsReads' = Append(fsReads, [path |-> etcPath, ok |-> r.err = <<>>])
          /\ data' = r.data
          /\ IF r.err # <<>>
             THEN /\ loadErr' = <<"could not read configuration: ">>
                                    \o ReadError(pwdErr, r.err)
                  /\ pc' = "loaded"
             ELSE /\ loadErr' = loadErr
                  /\ pc' = "unmarshal"
    /\ UNCHANGED <<pwdErr, config>>
    /\ UNCHANGED <<envVars, genVars, connVars, chanVars, loopVars, panicVal>>

\* loadConfiguration, yaml.Unmarshal of the data read.
UnmarshalStep ==
    /\ pc = "unmarshal"
    /\ LET r == Unmarshal(data)
       IN IF r.err # <<>>
          THEN /\ loadErr' = <<"could not parse configuration: ">> \o r.err
               /\ config' = config
          ELSE /\ loadErr' = loadErr
               /\ config' = r.config
    /\ pc' = "loaded"
    /\ UNCHANGED <<fsReads, pwdErr, data>>
    /\ UNCHANGED <<envVars, genVars, connVars, chanVars, loopVars, panicVal>>

\* ------------------------------------------------------------------- main
\* Variant: main goes on to the gateway although loading failed.
AfterLoadIgnoreError(err) == "eventReader"

\* main's branch on loadConfiguration's error.
AfterLoad(err) == IF err # <<>> THEN "outputDefault" ELSE "eventReader"

MainBranch ==
    /\ pc = "loaded"
    /\ pc' = AfterLoad(loadErr)
    /\ UNCHANGED <<envVars, loadVars, genVars, connVars, chanVars, loopVars, panicVal>>

\* ------------------------------------------- default-configuration generation
\* Gateways a discovery may report.  The last one has a host that url.URL's
\* String escapes and url.Parse then rejects.
Gateway(ip, port) == [InternalIPAddress |-> ip, InternalPort |-> port]
Gateways == {Gateway("10.0.0.1", 80), Gateway("10.0.0.2", 8080),
             Gateway("bad host", 80)}

SeqsUpTo(S, n) == UNION {[1..k -> S] : k \in 0..n}

\* Outcomes of deconz.Discover: an error, or a slice of gateways that may
\* be empty.
DiscoverOutcomes ==
    {[err |-> <<"discovery request failed">>, found |-> <<>>]}
        \cup {[err |-> <<>>, found |-> f] : f \in SeqsUpTo(Gateways, MaxCandidates)}

\* Outcomes of deconz.Pair: an API key, or an error with an empty key.
PairOutcomes ==
    {[apikey |-> "PAIREDKEY", err |-> <<>>],
     [apikey |-> "", err |-> <<"link button not pressed">>]}

\* Host escaping of url.URL's String.
EscapeHost(host) == IF host = "bad host" THEN "bad%20host" ELSE host

\* The url.URL defaultConfiguration builds for a gateway.
GatewayURL(g) ==
    [Scheme |-> "http",
     Host |-> <<g.InternalIPAddress, ":", ToString(g.InternalPort)>>,
     Path |-> "/api"]

\* url.URL's String.
UrlString(u) ==
    u.Scheme \o "://" \o EscapeHost(u.Host[1]) \o u.Host[2] \o u.Host[3] \o u.Path

\* Variant: no address is accepted, so pairing is never reached.
UrlParseRejectsAll(s) == [url |-> <<>>, err |-> <<"parse: rejected">>]

\* url.Parse: an escape such as %20 in the host is an error.
UrlParse(s) ==
    IF s = Skeleton.Deconz.Addr
          \/ \E g \in Gateways : /\ EscapeHost(g.InternalIPAddress) = g.InternalIPAddress
                                 /\ s = UrlString(GatewayURL(g))
    THEN [url |-> <<s>>, err |-> <<>>]
    ELSE [url |-> <<>>, err |-> <<"parse: invalid URL escape">>]

\* Variant: the last discovered gateway is taken.
SelectLastGateway(discovered) == discovered[Len(discovered)]

\* The gateway defaultConfiguration takes from the discovered ones.
SelectGateway(discovered) == discovered[1]

\* defaultConfiguration: the skeleton, then discovery; the first discovered
\* gateway's address replaces the skeleton's.  Indexing an empty slice
\* panics.
DefaultConfiguration ==
    /\ pc = "outputDefault"
    /\ \E r \in DiscoverOutcomes :
          /\ discovery' = Append(discovery, r)
          /\ IF r.err # <<>>
             THEN /\ c' = <<Skeleton>>
                  /\ pc' = "pair"
                  /\ panicVal' = panicVal
             ELSE IF Len(r.found) = 0
             THEN /\ c' = c
                  /\ pc' = "panic"
                  /\ panicVal' = <<"runtime error: index out of range [0] with length 0">>
             ELSE /\ c' = <<[Skeleton EXCEPT !.Deconz.Addr =
                                UrlString(GatewayURL(SelectGateway(r.found)))]>>
                  /\ pc' = "pair"
                  /\ panicVal' = panicVal
    /\ UNCHANGED <<pairing, stdout>>
    /\ UNCHANGED <<envVars, loadVars, connVars, chanVars, loopVars>>

\* Variant: the key is stored as the backend token too.
SetAPIKeyAndToken(cfg, apikey, err) ==
    [cfg EXCEPT !.Deconz.APIKey = apikey, !.Influxdb2.Token = apikey]

\* The assignment to c.Deconz.APIKey after deconz.Pair returned.
SetAPIKey(cfg, apikey, err) == [cfg EXCEPT !.Deconz.APIKey = apikey]

\* outputDefaultConfiguration: when the address parses, pair with it and
\* store the key returned.
PairStep ==
    /\ pc = "pair"
    /\ IF UrlParse(c[1].Deconz.Addr).err = <<>>
       THEN \E r \in PairOutcomes :
               /\ pairing' = Append(pairing, [addr |-> c[1].Deconz.Addr,
                                              err |-> r.err, apikey |-> r.apikey])
               /\ c' = <<SetAPIKey(c[1], r.apikey, r.err)>>
       ELSE UNCHANGED <<pairing, c>>
    /\ pc' = "marshal"
    /\ UNCHANGED <<discovery, stdout>>
    /\ UNCHANGED <<envVars, loadVars, connVars, chanVars, loopVars, panicVal>>

\* outputDefaultConfiguration: marshal the configuration, print it, return
\* to main, which returns.
MarshalPrint ==
    /\ pc = "marshal"
    /\ stdout' = stdout \o Marshal(c[1])
    /\ pc' = "exit"
    /\ UNCHANGED <<c, discovery, pairing>>
    /\ UNCHANGED <<envVars, loadVars, connVars, chanVars, loopVars, panicVal>>

\* -------------------------------------------------------- sensorEventChan
\* d.EventReader(): a failure makes sensorEventChan return the error.
EventReaderStep ==
    /\ pc = "eventReader"
    /\ eventReaderCalls' = eventReaderCalls + 1
    /\ \E err \in {<<>>, <<"no api key configured">>} :
          IF err # <<>>
          THEN chanErr' = err /\ pc' = "chanReturned"
          ELSE chanErr' = chanErr /\ pc' = "dial"
    /\ UNCHANGED <<dialCalls, chanMade, writer>>
    /\ UNCHANGED <<envVars, loadVars, genVars, chanVars, loopVars, panicVal>>

\* Variant: a failed dial does not return.
AfterDialIgnoreError(err) == "start"

\* Where sensorEventChan goes after reader.Dial().
AfterDial(err) == IF err # <<>> THEN "chanReturned" ELSE "start"

\* reader.Dial(): a failure makes sensorEventChan return the error.
DialStep ==
    /\ pc = "dial"
    /\ dialCalls' = dialCalls + 1
    /\ \E err \in {<<>>, <<"websocket: bad handshake">>} :
          /\ chanErr' = err
          /\ pc' = AfterDial(err)
    /\ UNCHANGED <<eventReaderCalls, chanMade, writer>>
    /\ UNCHANGED <<envVars, loadVars, genVars, chanVars, loopVars, panicVal>>

\* Variant: a channel that buffers one event.
ChanCapBuffered == 0 + 1

\* Capacity of the channel made by make(chan *deconz.SensorEvent).
ChanCap == 0

\* The channel is made and handed to sensorEventReader.Start, which starts
\* the producer goroutine; the channel is returned.
StartStep ==
    /\ pc = "start"
    /\ chanMade' = TRUE
    /\ prodPc' = "running"
    /\ pc' = "chanReturned"
    /\ UNCHANGED <<eventReaderCalls, dialCalls, chanErr, writer>>
    /\ UNCHANGED <<pending, buf, closed, sent, offered>>
    /\ UNCHANGED <<envVars, loadVars, genVars, loopVars, panicVal>>

\* main's branch on sensorEventChan's error.
AfterSensorEventChan(err) == IF err # <<>> THEN "panic" ELSE "newClient"

MainAfterChan ==
    /\ pc = "chanReturned"
    /\ pc' = AfterSensorEventChan(chanErr)
    /\ panicVal' = IF pc' = "panic" THEN chanErr ELSE panicVal
    /\ UNCHANGED <<envVars, loadVars, genVars, connVars, chanVars, loopVars>>

\* influxdb2.NewClientWithOptions and WriteAPI from the loaded configuration.
NewClient ==
    /\ pc = "newClient"
    /\ writer' = <<[URL |-> config[1].Influxdb2.URL,
                    Token |-> config[1].Influxdb2.Token,
                    BatchSize |-> config[1].Influxdb2.BatchSize,
                    Org |-> config[1].Influxdb2.Org,
                    Bucket |-> config[1].Influxdb2.Bucket]>>
    /\ pc' = "recv"
    /\ UNCHANGED <<eventReaderCalls, dialCalls, chanErr, chanMade>>
    /\ UNCHANGED <<envVars, loadVars, genVars, chanVars, loopVars, panicVal>>

\* ------------------------------------------------------------ the producer
SensorEvent(type, state) ==
    [Sensor |-> [Type |-> type, Name |-> type \o " sensor"], State |-> state]

\* Events the gateway may deliver.
Events ==
    {SensorEvent("temperature", "21.5"), SensorEvent("temperature", "malformed"),
     SensorEvent("humidity", "40"), SensorEvent("unknown", "1")}

RecognizedTypes == {"temperature", "humidity"}

\* SensorEvent.Timeseries: tags and fields, or an error for an unrecognized
\* type or a malformed payload.
Timeseries(e) ==
    IF e.Sensor.Type \in RecognizedTypes /\ e.State # "malformed"
    THEN [tags |-> <<e.Sensor.Name>>, fields |-> <<e.State>>, err |-> <<>>]
    ELSE [tags |-> <<>>, fields |-> <<>>,
          err |-> <<"no timeseries for sensor type " \o e.Sensor.Type>>]

\* The producer goroutine sends an event: handed to the loop when the loop
\* waits in its receive, buffered when the channel has room, and otherwise
\* the producer blocks in the send.
ProducerSend ==
    /\ prodPc = "running"
    /\ offered < MaxEvents
    /\ offered' = offered + 1
    /\ \E e \in Events :
          IF pc = "recv" /\ buf = <<>>
          THEN /\ sensorEvent' = <<e>>
               /\ received' = Append(received, e)
               /\ sent' = Append(sent, e)
               /\ pc' = "timeseries"
               /\ UNCHANGED <<prodPc, pending, buf>>
          ELSE IF Len(buf) < ChanCap
          THEN /\ buf' = Append(buf, e)
               /\ sent' = Append(sent, e)
               /\ UNCHANGED <<prodPc, pending, sensorEvent, received, pc>>
          ELSE /\ prodPc' = "blocked"
               /\ pending' = <<e>>
               /\ UNCHANGED <<buf, sent, sensorEvent, received, pc>>
    /\ UNCHANGED <<closed, processed, ts, written>>
    /\ UNCHANGED <<envVars, loadVars, genVars, connVars, panicVal>>

\* The producer closes the channel and ends.
ProducerClose ==
    /\ prodPc = "running"
    /\ closed' = TRUE
    /\ prodPc' = "done"
    /\ UNCHANGED <<pending, buf, sent, offered>>
    /\ UNCHANGED <<pc, envVars, loadVars, genVars, connVars, loopVars, panicVal>>

\* ------------------------------------------------------ the forwarding loop
\* case sensorEvent := <-sensorChan: the head of the buffer, else the event
\* of a blocked send, else nil from a closed channel; else the loop waits.
LoopRecv ==
    /\ pc = "recv"
    /\ Len(buf) > 0 \/ prodPc = "blocked" \/ closed
    /\ IF Len(buf) > 0
       THEN /\ sensorEvent' = <<Head(buf)>>
            /\ received' = Append(received, Head(buf))
            /\ IF prodPc = "blocked"
               THEN /\ buf' = Append(Tail(buf), pending[1])
                    /\ sent' = Append(sent, pending[1])
                    /\ pending' = <<>>
                    /\ prodPc' = "running"
               ELSE /\ buf' = Tail(buf)
                    /\ UNCHANGED <<sent, pending, prodPc>>
       ELSE IF prodPc = "blocked"
       THEN /\ sensorEvent' = pending
            /\ received' = Append(received, pending[1])
            /\ sent' = Append(sent, pending[1])
            /\ pending' = <<>>
            /\ prodPc' = "running"
            /\ buf' = buf
       ELSE /\ sensorEvent' = <<>>
            /\ UNCHANGED <<received, sent, pending, prodPc, buf>>
    /\ pc' = "timeseries"
    /\ UNCHANGED <<closed, offered, processed, ts, written>>
    /\ UNCHANGED <<envVars, loadVars, genVars, connVars, panicVal>>

\* Variant: the loop ends at an event whose normalization failed.
AfterTimeseriesStopOnError(err) == IF err # <<>> THEN "exit" ELSE "write"

\* Variant: the loop does not skip an event whose normalization failed.
AfterTimeseriesNoContinue(err) == "write"

\* The loop's branch on the error of Timeseries.
AfterTimeseries(err) == IF err # <<>> THEN "recv" ELSE "write"

\* sensorEvent.Timeseries() and the branch on its error.  On the nil event
\* of a closed channel the call either dereferences nil and panics or
\* returns an error.
LoopTimeseries ==
    /\ pc = "timeseries"
    /\ IF sensorEvent = <<>>
       THEN /\ \E outcome \in {"panic", "recv"} :
                  /\ pc' = outcome
                  /\ panicVal' = IF outcome = "panic"
                                 THEN <<"runtime error: invalid memory address or nil pointer dereference">>
                                 ELSE panicVal
            /\ UNCHANGED <<ts, processed>>
       ELSE /\ ts' = <<Timeseries(sensorEvent[1])>>
            /\ pc' = AfterTimeseries(ts'[1].err)
            /\ processed' = IF pc' = "recv" THEN processed + 1 ELSE processed
            /\ panicVal' = panicVal
    /\ UNCHANGED <<sensorEvent, received, written>>
    /\ UNCHANGED <<envVars, loadVars, genVars, connVars, chanVars>>

\* influxdb2.NewPoint without its time stamp.
NewPoint(measurement, tags, fields) ==
    [measurement |-> measurement, tags |-> tags, fields |-> fields]

\* Variant: the point of an event is submitted twice.
LoopWritePointTwice ==
    /\ pc = "write"
    /\ LET p == NewPoint("deflux_" \o sensorEvent[1].Sensor.Type,
                         ts[1].tags, ts[1].fields)
       IN written' = Append(Append(written, p), p)
    /\ processed' = processed + 1
    /\ pc' = "recv"
    /\ UNCHANGED <<sensorEvent, received, ts>>
    /\ UNCHANGED <<envVars, loadVars, genVars, connVars, chanVars, panicVal>>

\* writeAPI.WritePoint of the point built from the event.
LoopWritePoint ==
    /\ pc = "write"
    /\ written' = Append(written,
                         NewPoint("deflux_" \o sensorEvent[1].Sensor.Type,
                                  ts[1].tags, ts[1].fields))
    /\ processed' = processed + 1
    /\ pc' = "recv"
    /\ UNCHANGED <<sensorEvent, received, ts>>
    /\ UNCHANGED <<envVars, loadVars, genVars, connVars, chanVars, panicVal>>

\* ------------------------------------------------------------- properties
\* The working-directory location, once os.Getwd succeeded.
PwdPath == PathJoin(cwd[1], YmlFileName)

Readable(p) == fs[p].kind = "file"
Parseable(p) == Readable(p) /\ Unmarshal(fs[p].bytes).err = <<>>

\* The events among evs whose normalization succeeds.
Normalized(evs) == SelectSeq(evs, LAMBDA e : Timeseries(e).err = <<>>)

\* C1: the points submitted to the writer are exactly, one for one, the
\* received events the loop is done with whose normalization succeeded, each
\* under the measurement name "deflux_" + its sensor type; an event whose
\* normalization failed adds no point.
C1_PointsAreNormalizedEvents ==
    LET ok == Normalized(SubSeq(received, 1, processed))
    IN /\ Len(written) = Len(ok)
       /\ \A i \in 1..Len(ok) :
             written[i].measurement = "deflux_" \o ok[i].Sensor.Type

\* C1 witness: temperature, unknown, temperature were received and handled,
\* two points named deflux_temperature were written, the process runs on.
C1_Witness ==
    /\ received = <<SensorEvent("temperature", "21.5"), SensorEvent("unknown", "1"),
                    SensorEvent("temperature", "21.5")>>
    /\ processed = 3
    /\ Len(written) = 2
    /\ written[1].measurement = "deflux_temperature"
    /\ written[2].measurement = "deflux_temperature"
    /\ pc = "recv"

\* C2: the search is in strict priority order.  The first read is of the
\* working-directory file; when that file can be read, its content is what
\* readConfiguration returns and no second read happens; the /etc location
\* is read only second, after the first read failed.
C2_StrictPriority ==
    /\ Len(fsReads) <= 2
    /\ Len(fsReads) >= 1 => fsReads[1].path = PwdPath
    /\ Len(fsReads) = 2 => fsReads[2].path = EtcPath /\ ~fsReads[1].ok
    /\ (cwd # <<>> /\ pc \notin {"getwd", "readPwd"} /\ Readable(PwdPath)) =>
          /\ Len(fsReads) = 1
          /\ fsReads[1].ok
          /\ data = fs[PwdPath].bytes

\* C2 witness: both files are readable, loading is over, one read was made.
C2_Witness ==
    /\ pc = "loaded"
    /\ cwd = <<WorkDir>>
    /\ Readable(WorkPath) /\ Readable(EtcPath)
    /\ Len(fsReads) = 1
    /\ data = Marshal(ConfigWork)

\* C3 as stated: when /etc/deflux.yml is readable and parseable and the
\* working-directory file is absent, unreadable or unparseable,
\* loadConfiguration returns the configuration of /etc/deflux.yml.
C3_FirstParseableWins ==
    (pc = "loaded" /\ cwd # <<>> /\ Parseable(EtcPath) /\ ~Parseable(PwdPath)) =>
        /\ loadErr = <<>>
        /\ config = Unmarshal(fs[EtcPath].bytes).config

\* C3 amended: when /etc/deflux.yml is readable and parseable and the
\* working-directory file cannot be read, loadConfiguration returns the
\* configuration of /etc/deflux.yml; when the working-directory file is
\* readable but unparseable, loadConfiguration returns the parse error and
\* the /etc location is not consulted.
C3_FirstReadableWins ==
    (pc = "loaded" /\ cwd # <<>>) =>
        /\ (Parseable(EtcPath) /\ ~Readable(PwdPath)) =>
              /\ loadErr = <<>>
              /\ config = Unmarshal(fs[EtcPath].bytes).config
        /\ (Readable(PwdPath) /\ ~Parseable(PwdPath)) =>
              /\ loadErr = <<"could not parse configuration: ">>
                               \o Unmarshal(fs[PwdPath].bytes).err
              /\ config = <<>>
              /\ Len(fsReads) = 1

\* C3 witness: no working-directory file, a good /etc file, its
\* configuration loaded.
C3_Witness ==
    /\ pc = "loaded"
    /\ cwd = <<WorkDir>>
    /\ fs[WorkPath] = Absent
    /\ config = <<ConfigEtc>>
    /\ Len(fsReads) = 2

\* Why location p yields no configuration: its read error, else its parse
\* error; <<>> when it yields one.
LocationFailure(p) ==
    IF ReadFile(p).err # <<>> THEN ReadFile(p).err ELSE Unmarshal(fs[p].bytes).err

Carries(err, cause) == cause # <<>> /\ Range(cause) \subseteq Range(err)

\* C4 as stated: when loadConfiguration fails because neither location
\* produced a configuration, its error carries the failure reason of the
\* working-directory location and that of the /etc location.
C4_BothCausesAlways ==
    (/\ pc = "loaded" /\ loadErr # <<>> /\ cwd # <<>>
     /\ LocationFailure(PwdPath) # <<>> /\ LocationFailure(EtcPath) # <<>>) =>
        /\ Carries(loadErr, LocationFailure(PwdPath))
        /\ Carries(loadErr, LocationFailure(EtcPath))

\* C4 amended: when both reads fail (neither file can be read),
\* loadConfiguration fails and its error carries both read errors, the
\* working-directory one first; when the working-directory file is readable
\* but unparseable, the error carries its parse error alone.
C4_BothReadErrors ==
    (pc = "loaded" /\ cwd # <<>>) =>
        /\ (~Readable(PwdPath) /\ ~Readable(EtcPath)) =>
              loadErr = <<"could not read configuration: ", "\n",
                          ReadFile(PwdPath).err[1], "\n", ReadFile(EtcPath).err[1]>>
        /\ (Readable(PwdPath) /\ ~Parseable(PwdPath)) =>
              /\ Carries(loadErr, Unmarshal(fs[PwdPath].bytes).err)
              /\ ~Carries(loadErr, ReadFile(EtcPath).err)

\* C4 witness: the working-directory file is absent, the /etc file is
\* unreadable, and the error names both.
C4_Witness ==
    /\ pc = "loaded"
    /\ cwd = <<WorkDir>>
    /\ fs[WorkPath] = Absent /\ fs[EtcPath] = Denied
    /\ Len(loadErr) = 5

\* Positions of main on the default-generation path and in steady state.
GenerationPcs == {"outputDefault", "pair", "marshal", "exit"}
SteadyPcs == {"eventReader", "dial", "start", "chanReturned", "newClient",
              "recv", "timeseries", "write"}

\* C5: a run takes one of two paths.  After a failed loadConfiguration main
\* only generates the default configuration and exits: no event reader is
\* requested or dialed, no channel, producer or writer is created, no point
\* is submitted.  The gateway is approached and steady state entered only
\* after a successful loadConfiguration, and such a run never discovers,
\* pairs, or prints a configuration.
C5_TwoPaths ==
    /\ loadErr # <<>> =>
          /\ pc \in GenerationPcs \cup {"loaded", "panic"}
          /\ eventReaderCalls = 0 /\ dialCalls = 0
          /\ ~chanMade /\ prodPc = "none"
          /\ writer = <<>> /\ written = <<>>
    /\ pc \in GenerationPcs => loadErr # <<>>
    /\ pc = "exit" => stdout = Marshal(c[1])
    /\ (pc \in SteadyPcs \/ eventReaderCalls > 0) =>
          /\ loadErr = <<>> /\ config # <<>>
          /\ c = <<>> /\ discovery = <<>> /\ pairing = <<>> /\ stdout = <<>>

\* C5 witness: loading failed, the default configuration was printed and
\* main returned.
C5_Witness ==
    /\ pc = "exit"
    /\ loadErr # <<>>
    /\ stdout # <<>>
    /\ eventReaderCalls = 0

\* C6: in default generation a discovery error and a discovery of zero
\* gateways without error are handled alike: generation does not end in a
\* panic, and the configuration emitted has the placeholder gateway address.
C6_ZeroCandidatesLikeError ==
    (discovery # <<>> /\ (discovery[1].err # <<>> \/ Len(discovery[1].found) = 0)) =>
        /\ pc # "panic"
        /\ c # <<>> /\ c[1].Deconz.Addr = "http://127.0.0.1:8080/"
        /\ pc = "exit" => stdout[2] = "  addr: http://127.0.0.1:8080/"

\* C7: when pairing returned an error, the configuration emitted still has
\* the placeholder "change me" as its gateway APIKey.
C7_PairFailureKeepsPlaceholder ==
    (pc = "exit" /\ pairing # <<>> /\ pairing[1].err # <<>>) =>
        /\ Len(stdout) = 9
        /\ stdout[3] = "  apikey: change me"

\* C8: after a discovery of N >= 1 gateways the gateway address is built
\* from the gateway at index 0 alone, http://<its ip>:<its port>/api, in
\* place of the placeholder, whatever the other gateways are.
C8_FirstCandidateOnly ==
    (discovery # <<>> /\ discovery[1].err = <<>> /\ Len(discovery[1].found) >= 1) =>
        LET first == discovery[1].found[1]
            addr == "http://" \o EscapeHost(first.InternalIPAddress) \o ":"
                        \o ToString(first.InternalPort) \o "/api"
        IN /\ c # <<>> /\ c[1].Deconz.Addr = addr
           /\ pc = "exit" => stdout[2] = "  addr: " \o addr

\* C8 witness: two different gateways were discovered and the configuration
\* was emitted.
C8_Witness ==
    /\ pc = "exit"
    /\ discovery # <<>>
    /\ Len(discovery[1].found) = 2
    /\ discovery[1].found[1] = Gateway("10.0.0.2", 8080)
    /\ discovery[1].found[2] = Gateway("10.0.0.1", 80)
    /\ stdout[2] = "  addr: http://10.0.0.2:8080/api"

\* C9: a connection error at startup is fatal and not retried.  The event
\* reader is requested at most once and dialed at most once; when either
\* fails, sensorEventChan returns the error with no channel made and no
\* producer started, and main panics with it, with no writer created and
\* no point submitted.
C9_ConnectionErrorFatal ==
    /\ eventReaderCalls <= 1 /\ dialCalls <= 1
    /\ dialCalls <= eventReaderCalls
    /\ chanErr # <<>> =>
          /\ pc \in {"chanReturned", "panic"}
          /\ pc = "panic" => panicVal = chanErr
          /\ ~chanMade /\ prodPc = "none" /\ offered = 0
          /\ writer = <<>> /\ written = <<>>

\* C9 witness: the dial failed and main has panicked.
C9_Witness ==
    /\ pc = "panic"
    /\ chanErr = <<"websocket: bad handshake">>
    /\ eventReaderCalls = 1 /\ dialCalls = 1

\* C10: the hand-off is synchronous.  A send has completed exactly when the
\* loop has received that event, nothing is held in the channel, at most
\* one sent event is not yet fully processed, and that one is the event
\* the loop is normalizing or writing: the send of event k+1 completes
\* only after the loop is done with event k.
C10_SynchronousHandOff ==
    /\ buf = <<>>
    /\ sent = received
    /\ Len(sent) - processed \in {0, 1}
    /\ Len(sent) - processed = 1 =>
          /\ pc \in {"timeseries", "write"}
          /\ sensorEvent = <<sent[Len(sent)]>>

\* C10 witness: the producer is blocked in the send of the third event
\* while the loop is writing the point of the second.
C10_Witness ==
    /\ prodPc = "blocked"
    /\ pc = "write"
    /\ Len(sent) = 2
    /\ processed = 1

\* Positions of main inside the forwarding loop.
LoopPcs == {"recv", "timeseries", "write"}

\* C11: while the channel is open the loop never leaves its three
\* positions, and once it has received from the closed channel it halts: it
\* does not go back to receive from the closed channel again.
C11_HaltsOnClose ==
    [][/\ (pc \in LoopPcs /\ ~closed) => pc' \in LoopPcs
       /\ (pc = "timeseries" /\ closed /\ sensorEvent = <<>>) => pc' \notin LoopPcs]_vars

\* The address http://<ip>:<port>/api of the first gateway discovered.
FirstGatewayAddr ==
    LET first == discovery[1].found[1]
    IN "http://" \o EscapeHost(first.InternalIPAddress) \o ":"
           \o ToString(first.InternalPort) \o "/api"

NoGatewayFound ==
    discovery # <<>> /\ (discovery[1].err # <<>> \/ Len(discovery[1].found) = 0)

\* C13 as stated: discovery completes before pairing; pairing is attempted
\* only when discovery succeeded, against the address of the first gateway;
\* when discovery failed or found no gateway, pairing is not attempted.
C13_PairOnlyWhenDiscovered ==
    /\ pairing # <<>> =>
          /\ discovery # <<>>
          /\ discovery[1].err = <<>> /\ Len(discovery[1].found) >= 1
          /\ pairing[1].addr = FirstGatewayAddr
    /\ NoGatewayFound => pairing = <<>>

\* C13 amended: discovery completes before pairing, and each is called at
\* most once.  Pairing is attempted whenever defaultConfiguration returned
\* and the gateway address parses: against the address of the first gateway
\* when discovery succeeded, and against the placeholder address
\* http://127.0.0.1:8080/ when discovery returned an error.  After a
\* discovery of zero gateways pairing is not attempted.
C13_PairAfterDiscoveryReturns ==
    /\ Len(discovery) <= 1 /\ Len(pairing) <= 1
    /\ pairing # <<>> =>
          /\ discovery # <<>>
          /\ discovery[1].err # <<>> => pairing[1].addr = "http://127.0.0.1:8080/"
          /\ discovery[1].err = <<>> =>
                Len(discovery[1].found) >= 1 /\ pairing[1].addr = FirstGatewayAddr
    /\ (discovery # <<>> /\ discovery[1].err = <<>> /\ Len(discovery[1].found) = 0) =>
          pairing = <<>>
    /\ pc \in {"marshal", "exit"} =>
          (pairing # <<>> <=>
              \/ discovery[1].err # <<>>
              \/ discovery[1].found[1].InternalIPAddress # "bad host")
    /\ pc \in {"outputDefault", "pair"} => pairing = <<>>

\* C13 witness: discovery returned an error, and pairing was then attempted
\* against the placeholder address.
C13_Witness ==
    /\ pc = "exit"
    /\ discovery # <<>> /\ discovery[1].err # <<>>
    /\ pairing # <<>> /\ pairing[1].addr = "http://127.0.0.1:8080/"

\* The point the loop builds from an event that normalizes.
PointOf(e) ==
    NewPoint("deflux_" \o e.Sensor.Type, Timeseries(e).tags, Timeseries(e).fields)

IsPrefix(a, b) == Len(a) <= Len(b) /\ a = SubSeq(b, 1, Len(a))

\* C14: each event is consumed once and order is kept.  The events received
\* are, in order, the events sent; and the points written correspond, by a
\* strictly increasing map, to distinct received events the loop is done
\* with, each being the point of its event: at most one point per event, no
\* point without its event, points in the order of the sends.
C14_ExactlyOnceInOrder ==
    /\ IsPrefix(received, sent)
    /\ Len(sent) <= offered
    /\ processed <= Len(received)
    /\ \E f \in [1..Len(written) -> 1..processed] :
          /\ \A i, j \in 1..Len(written) : i < j => f[i] < f[j]
          /\ \A i \in 1..Len(written) :
                /\ Timeseries(received[f[i]]).err = <<>>
                /\ written[i] = PointOf(received[f[i]])

\* C14 witness: humidity, unknown, temperature were sent; the humidity point
\* and then the temperature point were written.
C14_Witness ==
    /\ sent = <<SensorEvent("humidity", "40"), SensorEvent("unknown", "1"),
                SensorEvent("temperature", "21.5")>>
    /\ processed = 3
    /\ Len(written) = 2
    /\ written[1].measurement = "deflux_humidity"
    /\ written[2].measurement = "deflux_temperature"

\* C15: default generation changes the gateway section only.  Whatever
\* discovery and pairing returned, the configuration emitted has the
\* skeleton's backend section: URL http://127.0.0.1:8086/, Org, Token and
\* Bucket "change me", BatchSize 20.
C15_BackendSectionUntouched ==
    /\ c # <<>> =>
          c[1].Influxdb2 = [URL |-> "http://127.0.0.1:8086/", Org |-> "change me",
                            Token |-> "change me", Bucket |-> "change me",
                            BatchSize |-> 20]
    /\ pc = "exit" =>
          /\ Len(stdout) = 9
          /\ SubSeq(stdout, 4, 9) =
                <<"influxdb2:", "  url: http://127.0.0.1:8086/", "  org: change me",
                  "  token: change me", "  bucket: change me", "  batchsize: 20">>

\* C15 witness: a gateway was discovered and paired with, both gateway
\* fields were replaced, and the configuration was emitted.
C15_Witness ==
    /\ pc = "exit"
    /\ discovery # <<>> /\ discovery[1].err = <<>>
    /\ pairing # <<>> /\ pairing[1].err = <<>>
    /\ stdout[2] = "  addr: http://10.0.0.1:80/api"
    /\ stdout[3] = "  apikey: PAIREDKEY"

Next ==
    \/ Getwd
    \/ ReadPwd
    \/ ReadEtc
    \/ UnmarshalStep
    \/ MainBranch
    \/ DefaultConfiguration
    \/ PairStep
    \/ MarshalPrint
    \/ EventReaderStep
    \/ DialStep
    \/ StartStep
    \/ MainAfterChan
    \/ NewClient
    \/ ProducerSend
    \/ ProducerClose
    \/ LoopRecv
    \/ LoopTimeseries
    \/ LoopWritePoint

Spec == Init /\ [][Next]_vars

\* The main goroutine, once the producer is started, and the loop it enters
\* are scheduled whenever they can run.
FairSpec ==
    /\ Spec
    /\ WF_vars(MainAfterChan)
    /\ WF_vars(NewClient)
    /\ WF_vars(LoopRecv)
    /\ WF_vars(LoopTimeseries)
    /\ WF_vars(LoopWritePoint)

\* C12: a normalization error does not stop the loop.  The step after a
\* failed Timeseries leads back to the receive; every send the producer
\* begins is eventually received; and every received event that normalizes
\* eventually has its point submitted, whatever failed before it.
C12_ErrorDoesNotStopLoop ==
    /\ [][(/\ pc = "timeseries" /\ sensorEvent # <<>>
           /\ Timeseries(sensorEvent[1]).err # <<>>
           /\ pc' # pc) => pc' = "recv"]_vars
    /\ \A k \in 1..MaxEvents :
          (offered >= k) ~> (Len(received) >= k)
    /\ \A k \in 1..MaxEvents :
          (Len(received) >= k /\ Timeseries(received[k]).err = <<>>)
              ~> (/\ Len(received) >= k
                  /\ Len(written) >= Len(Normalized(SubSeq(received, 1, k))))

\* C12 witness: an event of unknown type was dropped and the temperature
\* event after it was received and written.
C12_Witness ==
    /\ received = <<SensorEvent("unknown", "1"), SensorEvent("temperature", "21.5")>>
    /\ processed = 2
    /\ written = <<NewPoint("deflux_temperature", <<"temperature sensor">>, <<"21.5">>)>>
    /\ pc = "recv"
====
